---- MODULE Spec2Model ----
(***************************************************************************)
(* State-machine model of yt_dlp_downloader.py: a command-line front end   *)
(* that probes for the yt-dlp binary, validates a YouTube URL, and then    *)
(* runs exactly one of three operations (metadata query, format listing,   *)
(* download) as a blocking subprocess.                                     *)
(*                                                                         *)
(* Strings are TLA+ strings; Len, \o and SubSeq act on them character by   *)
(* character, so the URL patterns are matched on the text itself.          *)
(***************************************************************************)
EXTENDS Integers, Sequences, FiniteSets, TLC

VARIABLES
    pc,          \* position of main: start, probe, validate, info_run,
                 \* list_run, dl_mkdir, dl_run, done
    args,        \* the parsed command line (argparse namespace)
    fs,          \* file system: path -> "absent" | "dir" | "file"
    created,     \* directories created by any run so far
    createdRun,  \* directories created by the current run
    live,        \* the subprocesses currently running, oldest first
    procs,       \* argument lists of the subprocesses started in this run
    calls,       \* the operations main has invoked in this run
    out,         \* the lines printed in this run, as tags
    exitStatus,  \* process exit status, -1 while the run is in progress
    probe,       \* outcome of the version probe: unknown, ok, failed
    validated,   \* outcome of URL validation: unknown, ok, bad
    intr,        \* pc at which a KeyboardInterrupt was delivered, or none
    opResult,    \* what the invoked operation returned: none, ok, fail
    infoKeys,    \* keys of the mapping returned by get_video_info
    dirBefore,   \* state of the output path when download_video was called
    mkdirResult, \* outcome of os.makedirs: none, ok, failed
    runs,        \* number of program runs started so far
    vu           \* validator harness: [input, done, result]

vars == <<pc, args, fs, created, createdRun, live, procs, calls, out,
          exitStatus, probe, validated, intr, opResult, infoKeys, dirBefore,
          mkdirResult, runs, vu>>

(***************************************************************************)
(* Bounds.                                                                 *)
(***************************************************************************)
MaxRuns == 2
MaxIdLen == 2

(***************************************************************************)
(* validate_youtube_url: re.match of three patterns.  A matcher state is   *)
(* the set of positions (index of the next unread character) the pattern   *)
(* prefix can have consumed up to; re.match starts at position 1 only and  *)
(* succeeds when the whole pattern can be consumed, whatever follows.      *)
(***************************************************************************)
Letters ==
    {"a","b","c","d","e","f","g","h","i","j","k","l","m","n","o","p","q",
     "r","s","t","u","v","w","x","y","z",
     "A","B","C","D","E","F","G","H","I","J","K","L","M","N","O","P","Q",
     "R","S","T","U","V","W","X","Y","Z"}

Digits == {"0","1","2","3","4","5","6","7","8","9"}

\* \w for the ASCII range: letters, digits and the underscore.
WordChars == Letters \cup Digits \cup {"_"}

\* The character class [\w-].
IdClass == WordChars \cup {"-"}

\* A literal: from each position in P, consume exactly lit.
Lit(s, lit, P) ==
    {p + Len(lit) : p \in {q \in P : /\ q + Len(lit) - 1 <= Len(s)
                                     /\ SubSeq(s, q, q + Len(lit) - 1) = lit}}

\* The scheme group (?:https?://)? : optional "http", optional "s", "://".
SchemeOpt(s, P) ==
    LET http == Lit(s, "http", P)
        https == http \cup Lit(s, "s", http)
    IN  P \cup Lit(s, "://", https)

\* The group (?:www\.)? .
WwwOpt(s, P) == P \cup Lit(s, "www.", P)

\* [\w-]+ : one or more characters of the class, from each position in P.
RECURSIVE ClassRun(_, _, _)
ClassRun(s, p, n) ==
    IF n = 0 \/ p > Len(s) \/ SubSeq(s, p, p) \notin IdClass
    THEN {}
    ELSE {p + 1} \cup ClassRun(s, p + 1, n - 1)

IdPlus(s, P) == UNION {ClassRun(s, p, Len(s)) : p \in P}

youtube_patterns == <<"youtube.com/watch?v=", "youtu.be/", "youtube.com/embed/">>

\* One pattern, tried from the start positions P.
PatternMatch(s, body, P) == IdPlus(s, Lit(s, body, WwwOpt(s, SchemeOpt(s, P))))

\* re.match: anchored at the first character.
re_match(body, s) == PatternMatch(s, body, {1}) # {}

\* re.search: a match may start anywhere in the string.
re_search(body, s) == PatternMatch(s, body, 1..(Len(s) + 1)) # {}

\* A validator written with re.search in place of re.match.
validate_youtube_url_unanchored(url) ==
    \E i \in 1..Len(youtube_patterns) : re_search(youtube_patterns[i], url)

validate_youtube_url(url) ==
    \E i \in 1..Len(youtube_patterns) : re_match(youtube_patterns[i], url)

(***************************************************************************)
(* The command line and the environment.                                   *)
(***************************************************************************)
URLs == {"https://www.youtube.com/watch?v=a1", "youtu.be/a-b",
         "https://vimeo.com/12345"}

Outputs == {"downloads", "out"}

Formats == {"best", "best[height<=720]", "mp3", "--extract-audio"}

\* argparse namespace: url, -o/--output, -f/--format, --audio,
\* --list-formats, --info.
ArgSets == [url : URLs, output : Outputs, format : Formats,
            audio : BOOLEAN, list_formats : BOOLEAN, info : BOOLEAN]

PathStates == {"absent", "dir", "file"}

\* The five fields main prints, in print order, and one field it ignores.
Fields == <<"title", "duration", "uploader", "view_count", "upload_date">>

FieldSet == {Fields[i] : i \in 1..Len(Fields)}

InfoKeySpace == FieldSet \cup {"id"}

\* What the metadata subprocess can come back with: a non-zero exit, text
\* that is not JSON, or a JSON object with some set of keys.
InfoOutcomes ==
    {[rc |-> 1, parsed |-> FALSE, keys |-> {}],
     [rc |-> 0, parsed |-> FALSE, keys |-> {}]}
    \cup {[rc |-> 0, parsed |-> TRUE, keys |-> K] : K \in SUBSET InfoKeySpace}

(***************************************************************************)
(* Argument lists of the four subprocess invocations.                      *)
(***************************************************************************)
version_cmd == <<"yt-dlp", "--version">>

info_cmd(url) == <<"yt-dlp", "--dump-json", "--no-playlist", url>>

list_cmd(url) == <<"yt-dlp", "--list-formats", "--no-playlist", url>>

AudioSelector == "bestaudio[ext=m4a]/bestaudio[ext=mp3]/bestaudio"

OutputTemplate(output_path) == output_path \o "/%(title)s.%(ext)s"

\* A download_video whose audio branch forgets to replace the selector.
download_cmd_keeps_format(url, output_path, format_spec, audio_only) ==
    <<"yt-dlp", "--output", OutputTemplate(output_path), "--no-playlist",
      "--progress">>
    \o (IF audio_only
        THEN <<"--extract-audio", "--audio-format", "mp3",
               "--format", format_spec>>
        ELSE <<"--format", format_spec>>)
    \o <<url>>

download_cmd(url, output_path, format_spec, audio_only) ==
    <<"yt-dlp", "--output", OutputTemplate(output_path), "--no-playlist",
      "--progress">>
    \o (IF audio_only
        THEN <<"--extract-audio", "--audio-format", "mp3",
               "--format", AudioSelector>>
        ELSE <<"--format", format_spec>>)
    \o <<url>>

(***************************************************************************)
(* Pure pieces of main and download_video.                                 *)
(***************************************************************************)
\* A dispatch in which --audio takes precedence over --list-formats.
Dispatch_audio_first(a) ==
    IF a.info THEN "info"
    ELSE IF a.list_formats /\ ~a.audio THEN "list"
    ELSE "download"

\* The if-chain of main: --info, then --list-formats, then the download.
Dispatch(a) ==
    IF a.info THEN "info"
    ELSE IF a.list_formats THEN "list"
    ELSE "download"

\* A main whose branches lack their return statements and fall through.
After_fallthrough(op, a) ==
    IF op = "info" THEN (IF a.list_formats THEN "list" ELSE "download")
    ELSE IF op = "list" THEN "download"
    ELSE "return"

\* Where main goes when an operation returns without exiting: each branch
\* ends in return (the download branch is the end of the function).
After(op, a) == "return"

\* os.makedirs without exist_ok: an existing directory is an error.
makedirs_strict(state, envOk) == state = "absent" /\ envOk

\* os.makedirs(path, exist_ok=True): an existing directory is fine, a path
\* that exists as a file is not, and creating an absent one can fail.
makedirs_ok(state, envOk) == state = "dir" \/ (state = "absent" /\ envOk)

\* The line main prints for one field of the mapping.
InfoLine(f, K) == IF f \in K THEN f \o "=value" ELSE f \o "=Unknown"

\* The format spec ":," applied to the 'Unknown' default raises ValueError.
FormatRaises(f, K) == f = "view_count" /\ f \notin K

\* The lines printed by the five print calls until one raises.
RECURSIVE InfoLines(_, _)
InfoLines(i, K) ==
    IF i > Len(Fields) \/ FormatRaises(Fields[i], K)
    THEN <<>>
    ELSE <<InfoLine(Fields[i], K)>> \o InfoLines(i + 1, K)

InfoPrintRaises(K) == \E i \in 1..Len(Fields) : FormatRaises(Fields[i], K)

\* The try block of main: a KeyboardInterrupt raised inside it is caught.
InTry(p) == p \in {"info_run", "list_run", "dl_mkdir", "dl_run"}

(***************************************************************************)
(* Building blocks of the actions.                                         *)
(***************************************************************************)
rest == <<args, runs, vu>>

\* sys.exit(status), or falling off the end of main (status 0), after
\* printing o.  A subprocess still running is killed by subprocess.run.
Finish(status, o) ==
    /\ pc' = "done"
    /\ exitStatus' = status
    /\ out' = o
    /\ live' = <<>>
    /\ UNCHANGED <<calls, procs>>

\* Enter an operation of main (or return from main), having printed o,
\* with the subprocesses l still running.
Begin(op, o, l) ==
    CASE op = "info" ->
            /\ pc' = "info_run"
            /\ calls' = Append(calls, "info")
            /\ procs' = Append(procs, info_cmd(args.url))
            /\ live' = Append(l, "info")
            /\ out' = o
            /\ UNCHANGED exitStatus
      [] op = "list" ->
            /\ pc' = "list_run"
            /\ calls' = Append(calls, "list")
            /\ procs' = Append(procs, list_cmd(args.url))
            /\ live' = Append(l, "list")
            /\ out' = Append(o, "list_header")
            /\ UNCHANGED exitStatus
      [] op = "download" ->
            /\ pc' = "dl_mkdir"
            /\ calls' = Append(calls, "download")
            /\ out' = o
            /\ live' = l
            /\ UNCHANGED <<procs, exitStatus>>
      [] OTHER -> Finish(0, o)

\* check_yt_dlp_installed returned False without ending the run.
ToolAbsent_continue ==
    /\ probe' = "failed"
    /\ out' = out \o <<"absent_notice", "install_hint">>
    /\ pc' = "validate"
    /\ live' = <<>>
    /\ UNCHANGED <<calls, procs, exitStatus>>
    /\ UNCHANGED <<validated, intr, opResult, infoKeys, dirBefore, mkdirResult>>
    /\ UNCHANGED <<fs, created, createdRun>>
    /\ UNCHANGED rest

\* The probe failed: the absence notice, the hint, and sys.exit(1).
ToolAbsent ==
    /\ probe' = "failed"
    /\ Finish(1, out \o <<"absent_notice", "install_hint">>)
    /\ UNCHANGED <<validated, intr, opResult, infoKeys, dirBefore, mkdirResult>>
    /\ UNCHANGED <<fs, created, createdRun>>
    /\ UNCHANGED rest

\* An invalid URL reported without ending the run.
RejectUrl_continue ==
    /\ validated' = "bad"
    /\ Begin(Dispatch(args), Append(out, "invalid_url"), live)
    /\ UNCHANGED <<probe, intr, opResult, infoKeys, dirBefore, mkdirResult>>
    /\ UNCHANGED <<fs, created, createdRun>>
    /\ UNCHANGED rest

\* The URL did not validate: the diagnostic and sys.exit(1).
RejectUrl ==
    /\ validated' = "bad"
    /\ Finish(1, Append(out, "invalid_url"))
    /\ UNCHANGED <<probe, intr, opResult, infoKeys, dirBefore, mkdirResult>>
    /\ UNCHANGED <<fs, created, createdRun>>
    /\ UNCHANGED rest

(***************************************************************************)
(* Initial state: a run about to start, on some file system.               *)
(***************************************************************************)
IdleHarness == [input |-> "", done |-> FALSE, result |-> FALSE]

RunStart(a) ==
    /\ pc = "start"
    /\ args = a
    /\ createdRun = {}
    /\ live = <<>>
    /\ procs = <<>>
    /\ calls = <<>>
    /\ out = <<>>
    /\ exitStatus = -1
    /\ probe = "unknown"
    /\ validated = "unknown"
    /\ intr = "none"
    /\ opResult = "none"
    /\ infoKeys = {}
    /\ dirBefore = "none"
    /\ mkdirResult = "none"

Init ==
    /\ \E a \in ArgSets : RunStart(a)
    /\ fs \in [Outputs -> PathStates]
    /\ created = {}
    /\ runs = 1
    /\ vu = IdleHarness

(***************************************************************************)
(* Actions: one per step of main between two blocking points.              *)
(***************************************************************************)
\* check_yt_dlp_installed, up to the start of the version subprocess; a
\* missing binary raises FileNotFoundError at once.
StartProbe ==
    /\ pc = "start"
    /\ \E found \in BOOLEAN :
        IF found
        THEN /\ pc' = "probe"
             /\ procs' = Append(procs, version_cmd)
             /\ live' = Append(live, "version")
             /\ UNCHANGED <<calls, out, exitStatus>>
             /\ UNCHANGED <<probe, validated, intr, opResult, infoKeys,
                            dirBefore, mkdirResult>>
             /\ UNCHANGED <<fs, created, createdRun>>
             /\ UNCHANGED rest
        ELSE ToolAbsent

\* The version subprocess exits; check=True turns a non-zero status into
\* CalledProcessError.
ProbeExit ==
    /\ pc = "probe"
    /\ \E rc \in {0, 1} :
        IF rc = 0
        THEN /\ probe' = "ok"
             /\ pc' = "validate"
             /\ live' = <<>>
             /\ out' = Append(out, "version")
             /\ UNCHANGED <<calls, procs, exitStatus>>
             /\ UNCHANGED <<validated, intr, opResult, infoKeys, dirBefore,
                            mkdirResult>>
             /\ UNCHANGED <<fs, created, createdRun>>
             /\ UNCHANGED rest
        ELSE ToolAbsent

\* URL validation and, for a valid URL, the dispatch to one operation.
ValidateUrl ==
    /\ pc = "validate"
    /\ IF validate_youtube_url(args.url)
       THEN /\ validated' = "ok"
            /\ Begin(Dispatch(args), out, live)
            /\ UNCHANGED <<probe, intr, opResult, infoKeys, dirBefore,
                           mkdirResult>>
            /\ UNCHANGED <<fs, created, createdRun>>
            /\ UNCHANGED rest
       ELSE RejectUrl

\* The metadata subprocess exits: get_video_info returns, main prints.
InfoExit ==
    /\ pc = "info_run"
    /\ \E o \in InfoOutcomes :
        /\ IF o.rc # 0
           THEN \* CalledProcessError: diagnostic, None; main returns.
                /\ opResult' = "fail"
                /\ infoKeys' = {}
                /\ Begin(After("info", args), Append(out, "err_info"), <<>>)
           ELSE IF ~o.parsed
           THEN \* JSONDecodeError: diagnostic, None; main returns.
                /\ opResult' = "fail"
                /\ infoKeys' = {}
                /\ Begin(After("info", args), Append(out, "err_parse"), <<>>)
           ELSE /\ opResult' = "ok"
                /\ infoKeys' = o.keys
                /\ IF o.keys = {}
                   THEN \* an empty mapping is falsy: nothing is printed.
                        Begin(After("info", args), out, <<>>)
                   ELSE IF InfoPrintRaises(o.keys)
                   THEN \* ValueError, caught by except Exception.
                        Finish(1, Append(out \o InfoLines(1, o.keys), "error"))
                   ELSE Begin(After("info", args), out \o InfoLines(1, o.keys), <<>>)
    /\ UNCHANGED <<probe, validated, intr, dirBefore, mkdirResult>>
    /\ UNCHANGED <<fs, created, createdRun>>
    /\ UNCHANGED rest

\* The format-listing subprocess exits.
ListExit ==
    /\ pc = "list_run"
    /\ \E rc \in {0, 1} :
        /\ IF rc = 0
           THEN /\ opResult' = "ok"
                /\ Begin(After("list", args), Append(out, "formats"), <<>>)
           ELSE /\ opResult' = "fail"
                /\ Finish(1, Append(out, "err_list"))
    /\ UNCHANGED <<probe, validated, intr, infoKeys, dirBefore, mkdirResult>>
    /\ UNCHANGED <<fs, created, createdRun>>
    /\ UNCHANGED rest

\* download_video up to the start of the download subprocess.
DlMkdir ==
    /\ pc = "dl_mkdir"
    /\ dirBefore' = fs[args.output]
    /\ \E envOk \in BOOLEAN :
        IF makedirs_ok(fs[args.output], envOk)
        THEN /\ mkdirResult' = "ok"
             /\ fs' = [fs EXCEPT ![args.output] = "dir"]
             /\ created' = IF fs[args.output] = "dir"
                           THEN created ELSE created \cup {args.output}
             /\ createdRun' = IF fs[args.output] = "dir"
                              THEN createdRun ELSE createdRun \cup {args.output}
             /\ procs' = Append(procs, download_cmd(args.url, args.output,
                                                    args.format, args.audio))
             /\ live' = Append(live, "download")
             /\ out' = out \o <<"dl_start", "dl_outdir">>
             /\ pc' = "dl_run"
             /\ UNCHANGED <<calls, exitStatus, opResult>>
        ELSE \* OSError, caught by except Exception: False, sys.exit(1).
             /\ mkdirResult' = "failed"
             /\ opResult' = "fail"
             /\ Finish(1, Append(out, "dl_unexpected"))
             /\ UNCHANGED <<fs, created, createdRun>>
    /\ UNCHANGED <<probe, validated, intr, infoKeys>>
    /\ UNCHANGED rest

\* The download subprocess exits.
DlExit ==
    /\ pc = "dl_run"
    /\ \E rc \in {0, 1} :
        /\ IF rc = 0
           THEN /\ opResult' = "ok"
                /\ Begin(After("download", args), Append(out, "dl_ok"), <<>>)
           ELSE /\ opResult' = "fail"
                /\ Finish(1, Append(out, "dl_error"))
    /\ UNCHANGED <<probe, validated, intr, infoKeys, dirBefore, mkdirResult>>
    /\ UNCHANGED <<fs, created, createdRun>>
    /\ UNCHANGED rest

\* Ctrl-C: KeyboardInterrupt is raised where main currently is.  Inside the
\* try block main catches it; before the try block nothing does, and the
\* interpreter prints a traceback and ends with the SIGINT status.
Interrupt ==
    /\ pc # "done"
    /\ intr' = pc
    /\ IF InTry(pc)
       THEN Finish(1, Append(out, "cancelled"))
       ELSE Finish(130, Append(out, "traceback"))
    /\ UNCHANGED <<probe, validated, opResult, infoKeys, dirBefore, mkdirResult>>
    /\ UNCHANGED <<fs, created, createdRun>>
    /\ UNCHANGED rest

\* The program is run again, on the file system the earlier runs left.
Restart ==
    /\ pc = "done"
    /\ runs < MaxRuns
    /\ runs' = runs + 1
    /\ \E a \in ArgSets : args' = a
    /\ pc' = "start"
    /\ createdRun' = {}
    /\ live' = <<>>
    /\ procs' = <<>>
    /\ calls' = <<>>
    /\ out' = <<>>
    /\ exitStatus' = -1
    /\ probe' = "unknown"
    /\ validated' = "unknown"
    /\ intr' = "none"
    /\ opResult' = "none"
    /\ infoKeys' = {}
    /\ dirBefore' = "none"
    /\ mkdirResult' = "none"
    /\ UNCHANGED <<fs, created, vu>>

Next ==
    \/ StartProbe
    \/ ProbeExit
    \/ ValidateUrl
    \/ InfoExit
    \/ ListExit
    \/ DlMkdir
    \/ DlExit
    \/ Interrupt
    \/ Restart

Spec == Init /\ [][Next]_vars

(***************************************************************************)
(* A second specification for validate_youtube_url alone: the input is     *)
(* drawn from a bounded set of strings and the validator is applied once.  *)
(***************************************************************************)
IdAlphabet == {"a", "9", "_", "-", "!"}

RECURSIVE StringsUpTo(_)
StringsUpTo(n) ==
    IF n = 0 THEN {""}
    ELSE LET S == StringsUpTo(n - 1)
         IN  S \cup {s \o c : s \in S, c \in IdAlphabet}

LeadIn == {"", "x", " "}

SchemeIn == {"", "http://", "https://", "HTTPS://", "ftp://", "https:/"}

WwwIn == {"", "www.", "WWW.", "m."}

BodyIn == {"youtube.com/watch?v=", "youtu.be/", "youtube.com/embed/",
           "youtubeXcom/watch?v=", "youtube.com/watch?v", "youtu.be",
           "youtube.com/embed", "Youtu.be/", "youtube.com/WATCH?v=",
           "youtube.com/watch?x=", "youtube.com/v/", "vimeo.com/"}

UrlInputs ==
    {l \o sc \o w \o b \o id :
        l \in LeadIn, sc \in SchemeIn, w \in WwwIn, b \in BodyIn,
        id \in StringsUpTo(MaxIdLen)}

InitUrl ==
    /\ vu \in {[input |-> s, done |-> FALSE, result |-> FALSE] : s \in UrlInputs}
    /\ RunStart(CHOOSE a \in ArgSets : TRUE)
    /\ fs = [p \in Outputs |-> "absent"]
    /\ created = {}
    /\ runs = 1

ApplyValidate ==
    /\ ~vu.done
    /\ vu' = [vu EXCEPT !.done = TRUE, !.result = validate_youtube_url(vu.input)]
    /\ UNCHANGED <<pc, args, fs, created, createdRun, live, procs, calls, out,
                   exitStatus, probe, validated, intr, opResult, infoKeys,
                   dirBefore, mkdirResult, runs>>

NextUrl == ApplyValidate

SpecUrl == InitUrl /\ [][NextUrl]_vars

(***************************************************************************)
(* C10.  validate_youtube_url returns true exactly for the strings that    *)
(* begin with one of the three recognized shapes -- an optional http:// or *)
(* https://, an optional www., then youtube.com/watch?v=, youtu.be/ or     *)
(* youtube.com/embed/, then at least one id character -- whatever follows  *)
(* the id; a shape preceded by other characters is rejected, and so is a   *)
(* shape written in another letter case.                                   *)
(***************************************************************************)
ShapeSchemes == {"", "http://", "https://"}

ShapeHosts == {"", "www."}

ShapeBodies == {"youtube.com/watch?v=", "youtu.be/", "youtube.com/embed/"}

HasShape(s) ==
    \E sc \in ShapeSchemes, w \in ShapeHosts, b \in ShapeBodies :
        LET pre == sc \o w \o b
        IN  /\ Len(s) > Len(pre)
            /\ SubSeq(s, 1, Len(pre)) = pre
            /\ SubSeq(s, Len(pre) + 1, Len(pre) + 1) \in IdClass

CaseVariants == {"HTTPS://youtu.be/a", "https://WWW.youtube.com/watch?v=a",
                 "Youtu.be/a", "youtube.com/WATCH?v=a9",
                 "http://www.Youtu.be/-"}

C10_ValidatorMatchesShapes ==
    vu.done =>
        /\ vu.result = HasShape(vu.input)
        /\ (Len(vu.input) > 0 /\ SubSeq(vu.input, 1, 1) \in {"x", " "})
              => ~vu.result
        /\ vu.input \in CaseVariants => ~vu.result

\* An accepted URL with scheme and www, and trailing text after the id.
C10_Witness ==
    /\ vu.done
    /\ vu.input = "https://www.youtube.com/embed/a!"
    /\ vu.result

(***************************************************************************)
(* Properties of a run of main, checked under Spec.                        *)
(***************************************************************************)
Printed(tag) == \E i \in 1..Len(out) : out[i] = tag

Called(op) == \E i \in 1..Len(calls) : calls[i] = op

Has(cmd, tok) == \E i \in 1..Len(cmd) : cmd[i] = tok

\* The run got past the tool check and URL validation and was not cut
\* short by Ctrl-C.
CompletedRun == pc = "done" /\ validated = "ok" /\ intr = "none"

(***************************************************************************)
(* C1.  In a run that passes the tool check and URL validation, exit       *)
(* status 0 implies that the dispatched operation succeeded, and a failed  *)
(* operation (non-zero exit of the tool, unparseable output) gives exit    *)
(* status 1, on each of the three paths.                                   *)
(***************************************************************************)
C1_ExitReflectsOperation ==
    CompletedRun =>
        /\ opResult = "fail" => exitStatus = 1
        /\ exitStatus = 0 => opResult = "ok"

(***************************************************************************)
(* C2.  On the --info path, when the metadata query succeeds, all five     *)
(* lines are printed whatever subset of the five fields is absent, each    *)
(* absent field showing the placeholder, and the run exits with status 0.  *)
(* Stated for the mappings yt-dlp produces, which always carry an id; the  *)
(* empty mapping fails too, since main prints nothing for it.              *)
(***************************************************************************)
C2_InfoPrintsAllFields ==
    (CompletedRun /\ args.info /\ opResult = "ok" /\ "id" \in infoKeys) =>
        /\ exitStatus = 0
        /\ ~Printed("error")
        /\ \A f \in FieldSet : Printed(InfoLine(f, infoKeys))

(***************************************************************************)
(* C3.  If the version probe fails, the run has printed the absence        *)
(* notice and ended with exit status 1, URL validation was not performed,  *)
(* and no subprocess other than the version probe was started.             *)
(***************************************************************************)
C3_ProbeFailureEndsRun ==
    probe = "failed" =>
        /\ pc = "done"
        /\ exitStatus = 1
        /\ Printed("absent_notice")
        /\ validated = "unknown"
        /\ calls = <<>>
        /\ \A i \in 1..Len(procs) : procs[i] = version_cmd
        /\ Len(procs) <= 1
        /\ live = <<>>
        /\ createdRun = {}

\* The probe subprocess ran and exited non-zero.
C3_Witness ==
    /\ probe = "failed"
    /\ procs = <<version_cmd>>
    /\ exitStatus = 1

(***************************************************************************)
(* C4.  If the URL fails validation, the run has printed the invalid-URL   *)
(* diagnostic and ended with exit status 1 with no operation invoked, no   *)
(* metadata, listing or download subprocess started and no directory       *)
(* created, whatever the flags.                                            *)
(***************************************************************************)
C4_InvalidUrlEndsRun ==
    validated = "bad" =>
        /\ pc = "done"
        /\ exitStatus = 1
        /\ Printed("invalid_url")
        /\ calls = <<>>
        /\ procs = <<version_cmd>>
        /\ live = <<>>
        /\ createdRun = {}
        /\ mkdirResult = "none"

C4_Witness ==
    /\ validated = "bad"
    /\ args.info /\ args.list_formats /\ args.audio
    /\ args.format = "mp3"
    /\ fs[args.output] = "absent"

(***************************************************************************)
(* C5.  Once a run has passed the tool check and URL validation, exactly   *)
(* one of the three operations has been invoked, exactly once, whatever    *)
(* the flags; before that none has; and at most one subprocess is live at  *)
(* any time.                                                               *)
(***************************************************************************)
C5_ExactlyOneOperation ==
    /\ Len(live) <= 1
    /\ validated = "ok" =>
          /\ Len(calls) = 1
          /\ calls[1] \in {"info", "list", "download"}
          /\ Len(procs) <= 2
    /\ validated # "ok" => calls = <<>>

C5_Witness ==
    /\ CompletedRun
    /\ args.info /\ args.list_formats /\ args.audio
    /\ calls = <<"info">>
    /\ exitStatus = 0

(***************************************************************************)
(* C6 as stated.  With --list-formats the run performs the format          *)
(* enumeration and starts no download, whatever the other flags; with      *)
(* --info it performs the metadata display and starts no download.         *)
(***************************************************************************)
C6_ShortCircuitAnyFlags ==
    CompletedRun =>
        /\ args.list_formats => (Called("list") /\ ~Called("download"))
        /\ args.info => (Called("info") /\ ~Called("download"))

(***************************************************************************)
(* C6 amended.  With --info the run invokes the metadata operation and     *)
(* nothing else; with --list-formats and without --info it invokes the     *)
(* format enumeration and nothing else; in neither case is a download      *)
(* invoked or a download subprocess started.                               *)
(***************************************************************************)
C6_ShortCircuitInfoFirst ==
    validated = "ok" =>
        /\ args.info =>
              /\ calls = <<"info">>
              /\ procs = <<version_cmd, info_cmd(args.url)>>
        /\ (args.list_formats /\ ~args.info) =>
              /\ calls = <<"list">>
              /\ procs = <<version_cmd, list_cmd(args.url)>>
        /\ (args.info \/ args.list_formats) => mkdirResult = "none"

C6_Witness ==
    /\ CompletedRun
    /\ args.list_formats /\ ~args.info /\ args.audio
    /\ calls = <<"list">>
    /\ exitStatus = 0

(***************************************************************************)
(* C7 as stated.  With --audio the download argument list contains         *)
(* --extract-audio, --audio-format, mp3 and the fixed audio selector, and  *)
(* the caller's format value does not appear in it; without --audio the    *)
(* caller's value is the single --format value and no audio-extraction     *)
(* flag is present.                                                        *)
(***************************************************************************)
DownloadCmd == procs[Len(procs)]

C7_FormatNeverAppears ==
    mkdirResult = "ok" =>
        /\ args.audio =>
              /\ Has(DownloadCmd, "--extract-audio")
              /\ Has(DownloadCmd, "--audio-format")
              /\ Has(DownloadCmd, "mp3")
              /\ Has(DownloadCmd, AudioSelector)
              /\ ~Has(DownloadCmd, args.format)
        /\ ~args.audio =>
              /\ \E i \in 1..(Len(DownloadCmd) - 1) :
                    /\ DownloadCmd[i] = "--format"
                    /\ DownloadCmd[i + 1] = args.format
              /\ ~Has(DownloadCmd, "--extract-audio")

(***************************************************************************)
(* C7 amended.  The download argument list is the five fixed leading       *)
(* arguments, then with --audio the four arguments --extract-audio         *)
(* --audio-format mp3 --format followed by the fixed audio selector, and   *)
(* without --audio the argument --format followed by the caller's value,   *)
(* and last the URL.  So with --audio no position holds the caller's value *)
(* (the list is the same for every value), and without --audio the         *)
(* caller's value is the one argument after --format and the program adds  *)
(* no audio-extraction flag of its own.                                    *)
(***************************************************************************)
C7_FormatByPosition ==
    mkdirResult = "ok" =>
        /\ SubSeq(DownloadCmd, 1, 5) =
              <<"yt-dlp", "--output", OutputTemplate(args.output),
                "--no-playlist", "--progress">>
        /\ args.audio =>
              /\ Len(DownloadCmd) = 11
              /\ SubSeq(DownloadCmd, 6, 10) =
                    <<"--extract-audio", "--audio-format", "mp3",
                      "--format", AudioSelector>>
              /\ DownloadCmd[11] = args.url
        /\ ~args.audio =>
              /\ Len(DownloadCmd) = 8
              /\ DownloadCmd[6] = "--format"
              /\ DownloadCmd[7] = args.format
              /\ DownloadCmd[8] = args.url

C7_Witness ==
    /\ pc = "dl_run"
    /\ args.audio
    /\ args.format = "mp3"
    /\ Has(DownloadCmd, args.format)

(***************************************************************************)
(* C8.  In download_video the output directory exists while the tool       *)
(* runs; an absent directory is created first; when creation fails no      *)
(* download subprocess is started and the call fails; a directory that     *)
(* already exists (such as one an earlier call created) never fails the    *)
(* creation step; and a directory the program created is still there       *)
(* after a failed download.                                                *)
(***************************************************************************)
C8_OutputDirectory ==
    /\ pc = "dl_run" => (mkdirResult = "ok" /\ fs[args.output] = "dir")
    /\ mkdirResult = "ok" => fs[args.output] = "dir"
    /\ (mkdirResult = "ok" /\ dirBefore = "absent") => args.output \in createdRun
    /\ mkdirResult = "failed" =>
          /\ pc = "done"
          /\ exitStatus = 1
          /\ opResult = "fail"
          /\ procs = <<version_cmd>>
          /\ live = <<>>
          /\ dirBefore # "dir"
    /\ dirBefore = "dir" => mkdirResult = "ok"
    /\ \A p \in created : fs[p] = "dir"

\* A second run reuses the directory the first run created; its download
\* then fails and the directory is still there.
C8_Witness ==
    /\ runs = 2
    /\ pc = "done"
    /\ args.output \in created \ createdRun
    /\ dirBefore = "dir"
    /\ mkdirResult = "ok"
    /\ opResult = "fail"
    /\ fs[args.output] = "dir"

(***************************************************************************)
(* C9.  A user interrupt arriving during the version probe, during URL     *)
(* validation or while an operation is in progress is caught at the top    *)
(* level, reported with the cancellation message, and the run ends with    *)
(* exit status 1.                                                          *)
(***************************************************************************)
C9_InterruptAlwaysCaught ==
    (pc = "done" /\ intr \in {"probe", "validate", "info_run", "list_run",
                               "dl_mkdir", "dl_run"}) =>
        /\ exitStatus = 1
        /\ Printed("cancelled")

====
